---- MODULE Spec2Model ----
(***************************************************************************)
(* Shift-control loop of the A340E transmission controller                 *)
(* (src/a340-controller.ino): loop() runs readSensors() and                *)
(* processShiftLogic() once per period.                                    *)
(*                                                                         *)
(* Time.  The code stamps millis() into shift_start_time, last_shift_time  *)
(* and the static throttle_change_time, and only ever reads a stamp in a   *)
(* difference millis() - stamp.  The model keeps those differences: the    *)
(* elapsed times since_shift_start, since_last_shift and                   *)
(* since_throttle_change, advanced by the loop period at the start of each *)
(* tick and saturated above every constant they are compared with.         *)
(* setup() waits 1000 ms before initTransmission() and 1200 ms after it,   *)
(* so at the first tick every stamp (all 0) is more than 2 s old: the      *)
(* elapsed times start saturated.                                          *)
(*                                                                         *)
(* Inputs.  readSensors() is modelled by its result: any conditioned       *)
(* snapshot of the input sets.  trans_state.limp_mode has no writer in the *)
(* source; it is set from outside, between ticks, and is read as one more  *)
(* input of the tick.  processSerialCommands() (forceGear,                  *)
(* resetAdaptiveLearning) is never called by loop() and is not modelled.   *)
(***************************************************************************)
EXTENDS Integers, Sequences, FiniteSets, TLC

VARIABLES
  trans_state,   \* struct TransmissionState
  sensors,       \* struct SensorData (the fields the control loop reads)
  kd,            \* static locals of isKickdownRequested
  stats,         \* struct Statistics (total_shifts)
  pins,          \* actuator outputs: S1, S2 (digital), SLN, SLU (PWM compare value)
  obs            \* observer: executeShift calls per episode, time between calls

vars == <<trans_state, sensors, kd, stats, pins, obs>>

\* ------------------------------------------------------------------ bounds
TimeCap == 900        \* elapsed times saturate here
MaxShifts == 4        \* the loop is observed up to this many executeShift calls
MaxUpdates == 12      \* the learner is observed up to this many updates per shift

\* --------------------------------------------------------------- constants
SHIFT_1_2_UP == <<15, 20, 30, 45, 60>>
SHIFT_2_3_UP == <<35, 45, 60, 80, 100>>
SHIFT_3_4_UP == <<55, 65, 85, 110, 130>>
SHIFT_2_1_DOWN == <<10, 12, 18, 25, 35>>
SHIFT_3_2_DOWN == <<28, 35, 48, 65, 80>>
SHIFT_4_3_DOWN == <<48, 55, 72, 95, 115>>
SHIFT_1_2_UP_PWR == <<20, 30, 45, 60, 75>>
SHIFT_2_3_UP_PWR == <<45, 60, 80, 100, 120>>
SHIFT_3_4_UP_PWR == <<70, 85, 110, 130, 150>>

KICKDOWN_THRESHOLD == 85
KICKDOWN_4_3_SPEED == 120
KICKDOWN_3_2_SPEED == 90
KICKDOWN_2_1_SPEED == 50
KICKDOWN_RISE == 20
KICKDOWN_WINDOW == 200

SHIFT_DELAY == 150
SHIFT_COMPLETE_TIME == 500
SHIFT_SETTLE_TIME == 200
SHIFT_INHIBIT_TIME == 800

ACC_SOFT == 70
ACC_MEDIUM == 50
ACC_FIRM == 30
ACC_KICKDOWN == 20
ACC_MIN_DUTY == 15
ACC_MAX_DUTY == 85

LOCKUP_ENABLE_GEAR == 3
LOCKUP_ENABLE_SPEED == 60
LOCKUP_DISABLE_SPEED == 50
LOCKUP_THROTTLE_MAX == 70

PWM_MAX_DUTY == 1023

SHIFT_STABLE == "SHIFT_STABLE"
SHIFT_REQUESTED == "SHIFT_REQUESTED"
SHIFT_IN_PROGRESS == "SHIFT_IN_PROGRESS"
SHIFT_COMPLETING == "SHIFT_COMPLETING"
ShiftState == {SHIFT_STABLE, SHIFT_REQUESTED, SHIFT_IN_PROGRESS, SHIFT_COMPLETING}

LOW == "LOW"
HIGH == "HIGH"

\* ----------------------------------------------------------------- helpers
Min(a, b) == IF a < b THEN a ELSE b

\* Arduino constrain(x, lo, hi).
constrain(x, lo, hi) == IF x < lo THEN lo ELSE IF x > hi THEN hi ELSE x

\* C integer division, truncating toward zero (b > 0).
TruncDiv(a, b) == IF a >= 0 THEN a \div b ELSE -((-a) \div b)

\* Arduino map(): (x - in_min) * (out_max - out_min) / (in_max - in_min) + out_min.
map(x, in_min, in_max, out_min, out_max) ==
  TruncDiv((x - in_min) * (out_max - out_min), in_max - in_min) + out_min

\* table is a C array of 5: table[0] is table[1] here.
getShiftPoint(table, throttle_percent) ==
  IF throttle_percent <= 10 THEN table[1]
  ELSE IF throttle_percent <= 25 THEN map(throttle_percent, 10, 25, table[1], table[2])
  ELSE IF throttle_percent <= 50 THEN map(throttle_percent, 25, 50, table[2], table[3])
  ELSE IF throttle_percent <= 75 THEN map(throttle_percent, 50, 75, table[3], table[4])
  ELSE map(throttle_percent, 75, 100, table[4], table[5])

\* ------------------------------------------------------ kickdown detector
\* Mutant of KickdownStatics: a rise of exactly 20 points restamps too.
KickdownStatics_inclusive(k, throttle) ==
  [last_throttle |-> throttle,
   since_throttle_change |->
     IF throttle - k.last_throttle >= KICKDOWN_RISE THEN 0 ELSE k.since_throttle_change]

\* The statics of isKickdownRequested after a call: a rise of more than 20
\* points restamps throttle_change_time, last_throttle takes the sample.
KickdownStatics(k, throttle) ==
  [last_throttle |-> throttle,
   since_throttle_change |->
     IF throttle - k.last_throttle > KICKDOWN_RISE THEN 0 ELSE k.since_throttle_change]

\* The value isKickdownRequested returns.
isKickdownRequested(k, throttle) ==
  /\ throttle > KICKDOWN_THRESHOLD
  /\ KickdownStatics(k, throttle).since_throttle_change < KICKDOWN_WINDOW

\* ------------------------------------------------------------ gear selector
\* A world w is [ts, kd, stats, pins]: the state the tick works on; s is the
\* sensor snapshot.

\* Mutant of UpshiftTarget: the last branch taken for every gear above 2, so
\* that gear 4 asks for gear 5.
UpshiftTarget_unbounded(w, s, target) ==
  LET cur == w.ts.current_gear
      spd == s.vehicle_speed_kmh
      thr == s.throttle_percent
      shift_1_2 == IF w.ts.power_mode THEN SHIFT_1_2_UP_PWR ELSE SHIFT_1_2_UP
      shift_2_3 == IF w.ts.power_mode THEN SHIFT_2_3_UP_PWR ELSE SHIFT_2_3_UP
      shift_3_4 == IF w.ts.power_mode THEN SHIFT_3_4_UP_PWR ELSE SHIFT_3_4_UP
  IN  IF cur = 1
        THEN (IF spd > getShiftPoint(shift_1_2, thr) THEN 2 ELSE target)
      ELSE IF cur = 2
        THEN (IF spd > getShiftPoint(shift_2_3, thr) THEN 3 ELSE target)
      ELSE IF cur >= 3 /\ s.overdrive_enabled
        THEN (IF spd > getShiftPoint(shift_3_4, thr) THEN cur + 1 ELSE target)
      ELSE target

\* "Upshifts" block of determineTargetGear; target is the value so far.
UpshiftTarget(w, s, target) ==
  LET cur == w.ts.current_gear
      spd == s.vehicle_speed_kmh
      thr == s.throttle_percent
      shift_1_2 == IF w.ts.power_mode THEN SHIFT_1_2_UP_PWR ELSE SHIFT_1_2_UP
      shift_2_3 == IF w.ts.power_mode THEN SHIFT_2_3_UP_PWR ELSE SHIFT_2_3_UP
      shift_3_4 == IF w.ts.power_mode THEN SHIFT_3_4_UP_PWR ELSE SHIFT_3_4_UP
  IN  IF cur = 1
        THEN (IF spd > getShiftPoint(shift_1_2, thr) THEN 2 ELSE target)
      ELSE IF cur = 2
        THEN (IF spd > getShiftPoint(shift_2_3, thr) THEN 3 ELSE target)
      ELSE IF cur = 3 /\ s.overdrive_enabled
        THEN (IF spd > getShiftPoint(shift_3_4, thr) THEN 4 ELSE target)
      ELSE target

\* "Downshifts" block.
DownshiftTarget(w, s, target) ==
  LET cur == w.ts.current_gear
      spd == s.vehicle_speed_kmh
      thr == s.throttle_percent
  IN  IF cur = 4
        THEN (IF spd < getShiftPoint(SHIFT_4_3_DOWN, thr) THEN 3 ELSE target)
      ELSE IF cur = 3
        THEN (IF spd < getShiftPoint(SHIFT_3_2_DOWN, thr) THEN 2 ELSE target)
      ELSE IF cur = 2
        THEN (IF spd < getShiftPoint(SHIFT_2_1_DOWN, thr) THEN 1 ELSE target)
      ELSE target

\* Brake-assist block.
BrakeAssistTarget(w, s, target) ==
  LET cur == w.ts.current_gear
      spd == s.vehicle_speed_kmh
  IN  IF s.brake_pressed /\ s.throttle_percent < 5
        THEN LET t4 == IF cur = 4 /\ spd < 70 THEN 3 ELSE target
             IN  IF cur = 3 /\ spd < 45 THEN 2 ELSE t4
        ELSE target

\* Mutant of determineTargetGear: a kickdown in gear 4 below the 3-2 kickdown
\* speed asks for gear 2 at once.
determineTargetGear_doubleKick(w, s) ==
  IF w.ts.limp_mode THEN [target |-> 3, w |-> w]
  ELSE
    LET cur  == w.ts.current_gear
        spd  == s.vehicle_speed_kmh
        t0   == IF ~s.overdrive_enabled /\ cur > 3 THEN 3 ELSE cur
        kick == isKickdownRequested(w.kd, s.throttle_percent)
        w1   == [w EXCEPT !.kd = KickdownStatics(w.kd, s.throttle_percent),
                          !.ts.kickdown_active = kick]
    IN  IF kick /\ cur = 4 /\ spd < KICKDOWN_3_2_SPEED THEN [target |-> 2, w |-> w1]
        ELSE IF kick /\ cur = 4 /\ spd < KICKDOWN_4_3_SPEED THEN [target |-> 3, w |-> w1]
        ELSE IF kick /\ cur = 3 /\ spd < KICKDOWN_3_2_SPEED THEN [target |-> 2, w |-> w1]
        ELSE IF kick /\ cur = 2 /\ spd < KICKDOWN_2_1_SPEED THEN [target |-> 1, w |-> w1]
        ELSE [target |-> BrakeAssistTarget(w1, s,
                           DownshiftTarget(w1, s, UpshiftTarget(w1, s, t0))),
              w |-> w1]

\* Mutant of determineTargetGear: the overdrive inhibit is missing.
determineTargetGear_noInhibit(w, s) ==
  IF w.ts.limp_mode THEN [target |-> 3, w |-> w]
  ELSE
    LET cur  == w.ts.current_gear
        spd  == s.vehicle_speed_kmh
        kick == isKickdownRequested(w.kd, s.throttle_percent)
        w1   == [w EXCEPT !.kd = KickdownStatics(w.kd, s.throttle_percent),
                          !.ts.kickdown_active = kick]
    IN  IF kick /\ cur = 4 /\ spd < KICKDOWN_4_3_SPEED THEN [target |-> 3, w |-> w1]
        ELSE IF kick /\ cur = 3 /\ spd < KICKDOWN_3_2_SPEED THEN [target |-> 2, w |-> w1]
        ELSE IF kick /\ cur = 2 /\ spd < KICKDOWN_2_1_SPEED THEN [target |-> 1, w |-> w1]
        ELSE [target |-> BrakeAssistTarget(w1, s,
                           DownshiftTarget(w1, s, UpshiftTarget(w1, s, cur))),
              w |-> w1]

\* Mutant of determineTargetGear: the limp-mode return is missing.
determineTargetGear_noLimp(w, s) ==
  LET cur  == w.ts.current_gear
      spd  == s.vehicle_speed_kmh
      t0   == IF ~s.overdrive_enabled /\ cur > 3 THEN 3 ELSE cur
      kick == isKickdownRequested(w.kd, s.throttle_percent)
      w1   == [w EXCEPT !.kd = KickdownStatics(w.kd, s.throttle_percent),
                        !.ts.kickdown_active = kick]
  IN  IF kick /\ cur = 4 /\ spd < KICKDOWN_4_3_SPEED THEN [target |-> 3, w |-> w1]
      ELSE IF kick /\ cur = 3 /\ spd < KICKDOWN_3_2_SPEED THEN [target |-> 2, w |-> w1]
      ELSE IF kick /\ cur = 2 /\ spd < KICKDOWN_2_1_SPEED THEN [target |-> 1, w |-> w1]
      ELSE [target |-> BrakeAssistTarget(w1, s,
                         DownshiftTarget(w1, s, UpshiftTarget(w1, s, t0))),
            w |-> w1]

\* determineTargetGear: [target, w], w with kickdown_active and the
\* detector's statics updated (not in limp mode, which returns first).
determineTargetGear(w, s) ==
  IF w.ts.limp_mode THEN [target |-> 3, w |-> w]
  ELSE
    LET cur  == w.ts.current_gear
        spd  == s.vehicle_speed_kmh
        t0   == IF ~s.overdrive_enabled /\ cur > 3 THEN 3 ELSE cur
        kick == isKickdownRequested(w.kd, s.throttle_percent)
        w1   == [w EXCEPT !.kd = KickdownStatics(w.kd, s.throttle_percent),
                          !.ts.kickdown_active = kick]
    IN  IF kick /\ cur = 4 /\ spd < KICKDOWN_4_3_SPEED THEN [target |-> 3, w |-> w1]
        ELSE IF kick /\ cur = 3 /\ spd < KICKDOWN_3_2_SPEED THEN [target |-> 2, w |-> w1]
        ELSE IF kick /\ cur = 2 /\ spd < KICKDOWN_2_1_SPEED THEN [target |-> 1, w |-> w1]
        ELSE [target |-> BrakeAssistTarget(w1, s,
                           DownshiftTarget(w1, s, UpshiftTarget(w1, s, t0))),
              w |-> w1]

\* -------------------------------------------------------------- actuation
\* setAccumulator / setLockup: the PWM compare value written by ledcWrite.
setPwm(duty) == map(constrain(duty, 0, 100), 0, 100, 0, PWM_MAX_DUTY)

\* executeShift(from_gear, to_gear); a to_gear outside 1..4 writes no pin.
executeShift(w, from_gear, to_gear) ==
  LET s1 == IF to_gear \in {2, 4} THEN HIGH
            ELSE IF to_gear \in {1, 3} THEN LOW ELSE w.pins.s1
      s2 == IF to_gear \in {3, 4} THEN HIGH
            ELSE IF to_gear \in {1, 2} THEN LOW ELSE w.pins.s2
  IN  [w EXCEPT !.pins.s1 = s1,
                !.pins.s2 = s2,
                !.ts.current_gear = to_gear,
                !.ts.since_last_shift = 0,
                !.stats.total_shifts = @ + 1]

\* ------------------------------------------------------ pressure control
\* Mutant of calculateAccumulatorDuty: the load and the adaptive offset are
\* applied in every phase, not only while a shift is in progress.
calculateAccumulatorDuty_anyPhase(w, s) ==
  LET thr == s.throttle_percent
      shift_index == w.ts.target_gear - 2
      load == IF w.ts.kickdown_active THEN ACC_KICKDOWN
              ELSE IF thr > 60 THEN ACC_FIRM
              ELSE IF thr < 25 THEN ACC_SOFT
              ELSE ACC_MEDIUM
      base == IF shift_index >= 0 /\ shift_index < 3
                THEN load + w.ts.shift_quality_offset[shift_index + 1]
                ELSE load
      comp == IF s.fluid_temp_c < 40 THEN base - 20
              ELSE IF s.fluid_temp_c < 60 THEN base - 10
              ELSE IF s.fluid_temp_c > 100 THEN base + 10
              ELSE base
  IN  constrain(comp, ACC_MIN_DUTY, ACC_MAX_DUTY)

\* Mutant of calculateAccumulatorDuty: the final constrain is missing.
calculateAccumulatorDuty_unclamped(w, s) ==
  LET thr == s.throttle_percent
      shift_index == w.ts.target_gear - 2
      load == IF w.ts.kickdown_active THEN ACC_KICKDOWN
              ELSE IF thr > 60 THEN ACC_FIRM
              ELSE IF thr < 25 THEN ACC_SOFT
              ELSE ACC_MEDIUM
      base == IF w.ts.shift_state = SHIFT_IN_PROGRESS
                THEN (IF shift_index >= 0 /\ shift_index < 3
                        THEN load + w.ts.shift_quality_offset[shift_index + 1]
                        ELSE load)
                ELSE ACC_MEDIUM
  IN  IF s.fluid_temp_c < 40 THEN base - 20
      ELSE IF s.fluid_temp_c < 60 THEN base - 10
      ELSE IF s.fluid_temp_c > 100 THEN base + 10
      ELSE base

calculateAccumulatorDuty(w, s) ==
  LET thr == s.throttle_percent
      shift_index == w.ts.target_gear - 2
      load == IF w.ts.kickdown_active THEN ACC_KICKDOWN
              ELSE IF thr > 60 THEN ACC_FIRM
              ELSE IF thr < 25 THEN ACC_SOFT
              ELSE ACC_MEDIUM
      base == IF w.ts.shift_state = SHIFT_IN_PROGRESS
                THEN (IF shift_index >= 0 /\ shift_index < 3
                        THEN load + w.ts.shift_quality_offset[shift_index + 1]
                        ELSE load)
                ELSE ACC_MEDIUM
      comp == IF s.fluid_temp_c < 40 THEN base - 20
              ELSE IF s.fluid_temp_c < 60 THEN base - 10
              ELSE IF s.fluid_temp_c > 100 THEN base + 10
              ELSE base
  IN  constrain(comp, ACC_MIN_DUTY, ACC_MAX_DUTY)

\* Mutant of calculateLockupDuty: lockup is enabled above the disable speed,
\* so that the speed band between the two thresholds is gone.
calculateLockupDuty_noHysteresis(w, s) ==
  LET thr == s.throttle_percent
      can_lockup  == /\ w.ts.current_gear >= LOCKUP_ENABLE_GEAR
                     /\ s.vehicle_speed_kmh > LOCKUP_DISABLE_SPEED
                     /\ thr < LOCKUP_THROTTLE_MAX
                     /\ w.ts.shift_state = SHIFT_STABLE
                     /\ s.fluid_temp_c > 50
      must_unlock == \/ s.vehicle_speed_kmh < LOCKUP_DISABLE_SPEED
                     \/ thr > LOCKUP_THROTTLE_MAX + 10
                     \/ w.ts.shift_state # SHIFT_STABLE
                     \/ w.ts.current_gear < LOCKUP_ENABLE_GEAR
  IN  IF must_unlock THEN [duty |-> 0, engaged |-> FALSE]
      ELSE IF can_lockup
        THEN [duty |-> IF thr < 20 THEN 95 ELSE IF thr < 40 THEN 75 ELSE 50,
              engaged |-> TRUE]
      ELSE [duty |-> 0, engaged |-> w.ts.lockup_engaged]

\* calculateLockupDuty: [duty, engaged], engaged the new lockup_engaged.
calculateLockupDuty(w, s) ==
  LET thr == s.throttle_percent
      can_lockup  == /\ w.ts.current_gear >= LOCKUP_ENABLE_GEAR
                     /\ s.vehicle_speed_kmh > LOCKUP_ENABLE_SPEED
                     /\ thr < LOCKUP_THROTTLE_MAX
                     /\ w.ts.shift_state = SHIFT_STABLE
                     /\ s.fluid_temp_c > 50
      must_unlock == \/ s.vehicle_speed_kmh < LOCKUP_DISABLE_SPEED
                     \/ thr > LOCKUP_THROTTLE_MAX + 10
                     \/ w.ts.shift_state # SHIFT_STABLE
                     \/ w.ts.current_gear < LOCKUP_ENABLE_GEAR
  IN  IF must_unlock THEN [duty |-> 0, engaged |-> FALSE]
      ELSE IF can_lockup
        THEN [duty |-> IF thr < 20 THEN 95 ELSE IF thr < 40 THEN 75 ELSE 50,
              engaged |-> TRUE]
      ELSE [duty |-> 0, engaged |-> w.ts.lockup_engaged]

\* ------------------------------------------------------ adaptive learning
\* Mutant of updateAdaptiveLearning: the final constrain is missing.
updateAdaptiveLearning_unclamped(w, s) ==
  LET shift_index == w.ts.target_gear - 2
      duration    == w.ts.since_shift_start
      i           == shift_index + 1
      adjusted    == IF duration > 450 THEN w.ts.shift_quality_offset[i] - 2
                     ELSE IF duration < 350 THEN w.ts.shift_quality_offset[i] + 2
                     ELSE w.ts.shift_quality_offset[i]
  IN  IF w.ts.target_gear <= w.ts.current_gear THEN w
      ELSE IF w.ts.kickdown_active THEN w
      ELSE IF s.throttle_percent > 75 THEN w
      ELSE IF shift_index < 0 \/ shift_index >= 3 THEN w
      ELSE [w EXCEPT !.ts.shift_duration_ms = duration,
                     !.ts.shift_quality_offset[i] = adjusted,
                     !.ts.shift_count[i] = @ + 1]

updateAdaptiveLearning(w, s) ==
  LET shift_index == w.ts.target_gear - 2
      duration    == w.ts.since_shift_start
      i           == shift_index + 1
      adjusted    == IF duration > 450 THEN w.ts.shift_quality_offset[i] - 2
                     ELSE IF duration < 350 THEN w.ts.shift_quality_offset[i] + 2
                     ELSE w.ts.shift_quality_offset[i]
  IN  IF w.ts.target_gear <= w.ts.current_gear THEN w
      ELSE IF w.ts.kickdown_active THEN w
      ELSE IF s.throttle_percent > 75 THEN w
      ELSE IF shift_index < 0 \/ shift_index >= 3 THEN w
      ELSE [w EXCEPT !.ts.shift_duration_ms = duration,
                     !.ts.shift_quality_offset[i] = constrain(adjusted, -20, 20),
                     !.ts.shift_count[i] = @ + 1]

\* ---------------------------------------------------- shift state machine
\* The four cases of the switch in processShiftLogic; the elapsed times in w
\* are those at current_time.

\* Mutant of stepStable: a request is accepted without the inhibit test.
stepStable_noInhibit(w, s) ==
  LET d  == determineTargetGear(w, s)
      w1 == [d.w EXCEPT !.ts.target_gear = d.target]
  IN  IF w1.ts.target_gear # w1.ts.current_gear
        THEN [w1 EXCEPT !.ts.shift_state = SHIFT_REQUESTED,
                        !.ts.since_shift_start = 0]
        ELSE w1

\* Mutant of stepStable: the inhibit is measured from shift_start_time.
stepStable_wrongStamp(w, s) ==
  LET d  == determineTargetGear(w, s)
      w1 == [d.w EXCEPT !.ts.target_gear = d.target]
  IN  IF /\ w1.ts.target_gear # w1.ts.current_gear
         /\ w1.ts.since_shift_start > SHIFT_INHIBIT_TIME
        THEN [w1 EXCEPT !.ts.shift_state = SHIFT_REQUESTED,
                        !.ts.since_shift_start = 0]
        ELSE w1

\* case SHIFT_STABLE
stepStable(w, s) ==
  LET d  == determineTargetGear(w, s)
      w1 == [d.w EXCEPT !.ts.target_gear = d.target]
  IN  IF /\ w1.ts.target_gear # w1.ts.current_gear
         /\ w1.ts.since_last_shift > SHIFT_INHIBIT_TIME
        THEN [w1 EXCEPT !.ts.shift_state = SHIFT_REQUESTED,
                        !.ts.since_shift_start = 0]
        ELSE w1

\* Mutant of stepRequested: executeShift runs before the recheck is compared.
stepRequested_shiftFirst(w, s) ==
  IF w.ts.since_shift_start > SHIFT_DELAY
    THEN LET d == determineTargetGear(w, s)
             x == executeShift(d.w, d.w.ts.current_gear, d.w.ts.target_gear)
         IN  IF d.target = d.w.ts.target_gear
               THEN [x EXCEPT !.ts.shift_state = SHIFT_IN_PROGRESS]
               ELSE [x EXCEPT !.ts.shift_state = SHIFT_STABLE]
    ELSE w

\* Mutant of stepRequested: a changed target is not reverted, the request
\* waits until the selector agrees with it again.
stepRequested_noRevert(w, s) ==
  IF w.ts.since_shift_start > SHIFT_DELAY
    THEN LET d == determineTargetGear(w, s)
         IN  IF d.target = d.w.ts.target_gear
               THEN executeShift([d.w EXCEPT !.ts.shift_state = SHIFT_IN_PROGRESS],
                                 d.w.ts.current_gear, d.w.ts.target_gear)
               ELSE d.w
    ELSE w

\* case SHIFT_REQUESTED
stepRequested(w, s) ==
  IF w.ts.since_shift_start > SHIFT_DELAY
    THEN LET d == determineTargetGear(w, s)
         IN  IF d.target = d.w.ts.target_gear
               THEN executeShift([d.w EXCEPT !.ts.shift_state = SHIFT_IN_PROGRESS],
                                 d.w.ts.current_gear, d.w.ts.target_gear)
               ELSE [d.w EXCEPT !.ts.shift_state = SHIFT_STABLE]
    ELSE w

\* Mutant of stepInProgress: the solenoids are commanded again on completion.
stepInProgress_reshift(w, s) ==
  IF w.ts.since_shift_start > SHIFT_COMPLETE_TIME
    THEN executeShift([w EXCEPT !.ts.shift_state = SHIFT_COMPLETING],
                      w.ts.current_gear, w.ts.target_gear)
    ELSE w

\* case SHIFT_IN_PROGRESS
stepInProgress(w, s) ==
  IF w.ts.since_shift_start > SHIFT_COMPLETE_TIME
    THEN [w EXCEPT !.ts.shift_state = SHIFT_COMPLETING]
    ELSE w

\* Mutant of stepCompleting: the settle time is not waited for.
stepCompleting_noSettle(w, s) ==
  IF w.ts.since_shift_start > SHIFT_COMPLETE_TIME
    THEN updateAdaptiveLearning([w EXCEPT !.ts.shift_state = SHIFT_STABLE], s)
    ELSE w

\* case SHIFT_COMPLETING
stepCompleting(w, s) ==
  IF w.ts.since_shift_start > SHIFT_COMPLETE_TIME + SHIFT_SETTLE_TIME
    THEN updateAdaptiveLearning([w EXCEPT !.ts.shift_state = SHIFT_STABLE], s)
    ELSE w

\* Mutant of writeDuties: the solenoids are driven before the duties are
\* recomputed, with the values of the previous tick.
writeDuties_stale(w, s) ==
  LET acc == calculateAccumulatorDuty(w, s)
      lu  == calculateLockupDuty(w, s)
  IN  [w EXCEPT !.ts.accumulator_duty = acc,
                !.ts.lockup_duty = lu.duty,
                !.ts.lockup_engaged = lu.engaged,
                !.pins.sln = setPwm(w.ts.accumulator_duty),
                !.pins.slu = setPwm(w.ts.lockup_duty)]

\* The duties computed and written at the end of processShiftLogic.
writeDuties(w, s) ==
  LET acc == calculateAccumulatorDuty(w, s)
      lu  == calculateLockupDuty(w, s)
  IN  [w EXCEPT !.ts.accumulator_duty = acc,
                !.ts.lockup_duty = lu.duty,
                !.ts.lockup_engaged = lu.engaged,
                !.pins.sln = setPwm(acc),
                !.pins.slu = setPwm(lu.duty)]

processShiftLogic(w, s) ==
  LET w1 == CASE w.ts.shift_state = SHIFT_STABLE      -> stepStable(w, s)
              [] w.ts.shift_state = SHIFT_REQUESTED   -> stepRequested(w, s)
              [] w.ts.shift_state = SHIFT_IN_PROGRESS -> stepInProgress(w, s)
              [] w.ts.shift_state = SHIFT_COMPLETING  -> stepCompleting(w, s)
  IN  writeDuties(w1, s)

\* ------------------------------------------------------------------- state
\* initTransmission, the zero-initialised globals and setupPWM.
Init ==
  /\ trans_state = [current_gear |-> 1,
                    target_gear |-> 1,
                    shift_state |-> SHIFT_STABLE,
                    since_shift_start |-> TimeCap,
                    since_last_shift |-> TimeCap,
                    shift_duration_ms |-> 0,
                    kickdown_active |-> FALSE,
                    power_mode |-> FALSE,
                    lockup_engaged |-> FALSE,
                    lockup_duty |-> 0,
                    accumulator_duty |-> ACC_MEDIUM,
                    shift_quality_offset |-> <<0, 0, 0>>,
                    shift_count |-> <<0, 0, 0>>,
                    limp_mode |-> FALSE]
  /\ sensors = [throttle_percent |-> 0,
                vehicle_speed_kmh |-> 0,
                fluid_temp_c |-> 0,
                brake_pressed |-> FALSE,
                overdrive_enabled |-> FALSE]
  /\ kd = [last_throttle |-> 0, since_throttle_change |-> KICKDOWN_WINDOW]
  /\ stats = [total_shifts |-> 0]
  /\ pins = [s1 |-> LOW, s2 |-> LOW, sln |-> 0, slu |-> 0]
  /\ obs = [episode_shifts |-> 0, since_exec |-> TimeCap, shift_gap |-> TimeCap]

\* The elapsed times dt ms later.
advanceClock(w, dt) ==
  [w EXCEPT !.ts.since_shift_start = Min(@ + dt, TimeCap),
            !.ts.since_last_shift = Min(@ + dt, TimeCap),
            !.kd.since_throttle_change = Min(@ + dt, KICKDOWN_WINDOW)]

\* One pass of loop(), dt ms after the previous one: readSensors() delivers
\* the snapshot s and power_mode, limp is the limp-mode latch as set from
\* outside, processShiftLogic() runs.
loop(dt, s, pwr, limp) ==
  /\ stats.total_shifts < MaxShifts
  /\ sensors' = s
  /\ \E w1 \in {processShiftLogic(
                  advanceClock([ts |-> [trans_state EXCEPT !.power_mode = pwr,
                                                           !.limp_mode = limp],
                                kd |-> kd, stats |-> stats, pins |-> pins], dt),
                  s)} :
       LET fired == w1.stats.total_shifts # stats.total_shifts
           gap   == Min(obs.since_exec + dt, TimeCap)
       IN  /\ trans_state' = w1.ts
           /\ kd' = w1.kd
           /\ stats' = w1.stats
           /\ pins' = w1.pins
           /\ obs' = [episode_shifts |->
                        IF trans_state.shift_state = SHIFT_STABLE THEN 0
                        ELSE obs.episode_shifts + (IF fired THEN 1 ELSE 0),
                      since_exec |-> IF fired THEN 0 ELSE gap,
                      shift_gap |->
                        IF fired /\ stats.total_shifts >= 1 THEN gap
                        ELSE obs.shift_gap]

\* ------------------------------------------------------------ input sets
\* Loop periods in ms: delay(20) plus the work of one pass.
Periods == {25, 50}

Snapshot(thr, spd, tmp, brk, od) ==
  [throttle_percent |-> thr, vehicle_speed_kmh |-> spd, fluid_temp_c |-> tmp,
   brake_pressed |-> brk, overdrive_enabled |-> od]

\* Driving situations: standstill, open road with and without overdrive,
\* full throttle at 60 km/h, braking at 60 km/h.
DriveCases ==
  { Snapshot(0, 0, 80, FALSE, TRUE),
    Snapshot(0, 140, 80, FALSE, TRUE),
    Snapshot(0, 140, 80, FALSE, FALSE),
    Snapshot(90, 60, 80, FALSE, TRUE),
    Snapshot(0, 60, 80, TRUE, TRUE) }

\* The limp-mode latch is set from outside and stays set.
LimpInputs == {trans_state.limp_mode, TRUE}

Tick ==
  \E dt \in Periods, s \in DriveCases, limp \in LimpInputs, pwr \in BOOLEAN :
    loop(dt, s, pwr, limp)

Next == Tick

Spec == Init /\ [][Next]_vars

\* Standstill, open road and braking at 60 km/h, with the limp-mode latch
\* set at any tick.
LimpCases ==
  { Snapshot(0, 0, 80, FALSE, TRUE),
    Snapshot(0, 140, 80, FALSE, TRUE),
    Snapshot(0, 60, 80, TRUE, TRUE) }

TickLimp ==
  \E dt \in Periods, s \in LimpCases, limp \in LimpInputs :
    loop(dt, s, FALSE, limp)

NextLimp == TickLimp

\* loop() is called again and again: the tick is taken while it is enabled.
SpecLimp == Init /\ [][NextLimp]_vars /\ WF_vars(TickLimp)

\* Standstill and open road with the overdrive switch in either position;
\* limp mode stays off.
OverdriveCases ==
  { Snapshot(0, spd, 80, FALSE, od) : spd \in {0, 140}, od \in BOOLEAN }

TickOverdrive ==
  \E dt \in Periods, s \in OverdriveCases :
    loop(dt, s, FALSE, FALSE)

NextOverdrive == TickOverdrive

SpecOverdrive == Init /\ [][NextOverdrive]_vars /\ WF_vars(TickOverdrive)

\* Steady load: throttle, brake, overdrive switch and power mode are those of
\* the first pass for the whole drive, the speed never falls, limp mode is off.
SteadyCases ==
  { Snapshot(thr, spd, 80, brk, od) :
      thr \in {0, 50}, spd \in {0, 60, 140}, brk \in BOOLEAN, od \in BOOLEAN }

\* readSensors() has not run yet: sensors is the zero-initialised global.
Unsampled == sensors.fluid_temp_c = 0

TickSteady ==
  \E dt \in Periods, s \in SteadyCases, pwr \in BOOLEAN :
    /\ \/ Unsampled
       \/ /\ s.throttle_percent = sensors.throttle_percent
          /\ s.brake_pressed = sensors.brake_pressed
          /\ s.overdrive_enabled = sensors.overdrive_enabled
          /\ s.vehicle_speed_kmh >= sensors.vehicle_speed_kmh
          /\ pwr = trans_state.power_mode
    /\ loop(dt, s, pwr, FALSE)

NextSteady == TickSteady

SpecSteady == Init /\ [][NextSteady]_vars

\* The duty calculation on its own: the end of processShiftLogic applied to
\* any phase, gears, kickdown flag, lockup flag and adaptive offsets.
Offsets == {-20, 0, 20}

InitDuty ==
  /\ \E ph \in ShiftState, cur \in 1..4, tgt \in 1..4,
        kick \in BOOLEAN, lu \in BOOLEAN, o \in Offsets :
       trans_state = [current_gear |-> cur,
                      target_gear |-> tgt,
                      shift_state |-> ph,
                      since_shift_start |-> TimeCap,
                      since_last_shift |-> TimeCap,
                      shift_duration_ms |-> 0,
                      kickdown_active |-> kick,
                      power_mode |-> FALSE,
                      lockup_engaged |-> lu,
                      lockup_duty |-> 0,
                      accumulator_duty |-> ACC_MEDIUM,
                      shift_quality_offset |-> <<o, o, o>>,
                      shift_count |-> <<0, 0, 0>>,
                      limp_mode |-> FALSE]
  /\ sensors = [throttle_percent |-> 0,
                vehicle_speed_kmh |-> 0,
                fluid_temp_c |-> 0,
                brake_pressed |-> FALSE,
                overdrive_enabled |-> FALSE]
  /\ kd = [last_throttle |-> 0, since_throttle_change |-> KICKDOWN_WINDOW]
  /\ stats = [total_shifts |-> 0]
  /\ pins = [s1 |-> LOW, s2 |-> LOW, sln |-> 0, slu |-> 0]
  /\ obs = [episode_shifts |-> 0, since_exec |-> TimeCap, shift_gap |-> TimeCap]

\* Throttle on both sides of every load and lockup threshold, speed below,
\* inside and above the lockup band, fluid from cold to overheated.
DutyCases ==
  { Snapshot(thr, spd, tmp, FALSE, TRUE) :
      thr \in {0, 30, 65, 75, 90}, spd \in {40, 55, 65}, tmp \in {30, 55, 80, 110} }

\* The two duties are computed from the snapshot and written out.
TickDuty ==
  \E s \in DutyCases :
    /\ sensors' = s
    /\ \E w1 \in {writeDuties([ts |-> trans_state, kd |-> kd,
                               stats |-> stats, pins |-> pins], s)} :
         /\ trans_state' = w1.ts
         /\ pins' = w1.pins
    /\ UNCHANGED <<kd, stats, obs>>

NextDuty == TickDuty

SpecDuty == InitDuty /\ [][NextDuty]_vars

\* The learner on its own: updateAdaptiveLearning applied again and again
\* to a shift from current_gear to target_gear, with the measured duration
\* and the throttle drawn at each call.
Durations == {300, 400, 725}

InitLearn ==
  /\ \E cur \in 1..3, tgt \in 1..4, kick \in BOOLEAN :
       trans_state = [current_gear |-> cur,
                      target_gear |-> tgt,
                      shift_state |-> SHIFT_STABLE,
                      since_shift_start |-> TimeCap,
                      since_last_shift |-> TimeCap,
                      shift_duration_ms |-> 0,
                      kickdown_active |-> kick,
                      power_mode |-> FALSE,
                      lockup_engaged |-> FALSE,
                      lockup_duty |-> 0,
                      accumulator_duty |-> ACC_MEDIUM,
                      shift_quality_offset |-> <<0, 0, 0>>,
                      shift_count |-> <<0, 0, 0>>,
                      limp_mode |-> FALSE]
  /\ sensors = [throttle_percent |-> 0,
                vehicle_speed_kmh |-> 0,
                fluid_temp_c |-> 0,
                brake_pressed |-> FALSE,
                overdrive_enabled |-> FALSE]
  /\ kd = [last_throttle |-> 0, since_throttle_change |-> KICKDOWN_WINDOW]
  /\ stats = [total_shifts |-> 0]
  /\ pins = [s1 |-> LOW, s2 |-> LOW, sln |-> 0, slu |-> 0]
  /\ obs = [episode_shifts |-> 0, since_exec |-> TimeCap, shift_gap |-> TimeCap]

TickLearn ==
  \E d \in Durations, thr \in {0, 80} :
    /\ \A i \in 1..3 : trans_state.shift_count[i] < MaxUpdates
    /\ sensors' = Snapshot(thr, 0, 80, FALSE, TRUE)
    /\ \E w1 \in {updateAdaptiveLearning(
                    [ts |-> [trans_state EXCEPT !.since_shift_start = d],
                     kd |-> kd, stats |-> stats, pins |-> pins],
                    Snapshot(thr, 0, 80, FALSE, TRUE))} :
         trans_state' = w1.ts
    /\ UNCHANGED <<kd, stats, pins, obs>>

NextLearn == TickLearn

SpecLearn == InitLearn /\ [][NextLearn]_vars

\* Climbing: the open road at 140 km/h, light or half throttle, either shift
\* program; every shift is an upshift by one gear.
ClimbCases == { Snapshot(thr, 140, 80, FALSE, TRUE) : thr \in {0, 50} }

TickClimb ==
  \E dt \in Periods, s \in ClimbCases, pwr \in BOOLEAN :
    loop(dt, s, pwr, FALSE)

NextClimb == TickClimb

SpecClimb == Init /\ [][NextClimb]_vars

\* Speed sweep around the lockup thresholds: throttle 15, fluid 80 C,
\* overdrive off (gear 3 is reached and held), limp mode off; the speed is
\* below, on the edges of, and above the 50..60 km/h band, in any order.
SweepCases == { Snapshot(15, spd, 80, FALSE, FALSE) : spd \in {45, 50, 60, 65} }

TickSweep ==
  \E dt \in Periods, s \in SweepCases :
    loop(dt, s, FALSE, FALSE)

NextSweep == TickSweep

SpecSweep == Init /\ [][NextSweep]_vars

\* Throttle steps for the kickdown detector: closed, 66 and 86 percent (a rise
\* of exactly 20 into the kickdown range), at standstill and at 40 km/h, where
\* a kickdown shifts down; limp mode off.
KickCases ==
  { Snapshot(thr, spd, 80, FALSE, TRUE) : thr \in {0, 66, 86}, spd \in {0, 40} }

TickKick ==
  \E dt \in Periods, s \in KickCases :
    loop(dt, s, FALSE, FALSE)

NextKick == TickKick

SpecKick == Init /\ [][NextKick]_vars

\* Held inputs from any gear: the phase is Stable in gear g with the solenoids
\* as executeShift leaves them for g, and the first snapshot and shift program
\* are kept on every later pass; limp mode off.
HoldCases ==
  { Snapshot(thr, spd, 80, brk, od) :
      thr \in {0, 30, 90}, spd \in {0, 30, 40, 60, 100, 140},
      brk \in BOOLEAN, od \in BOOLEAN }

InitHold ==
  /\ \E g \in 1..4 :
       /\ trans_state = [current_gear |-> g,
                         target_gear |-> g,
                         shift_state |-> SHIFT_STABLE,
                         since_shift_start |-> TimeCap,
                         since_last_shift |-> TimeCap,
                         shift_duration_ms |-> 0,
                         kickdown_active |-> FALSE,
                         power_mode |-> FALSE,
                         lockup_engaged |-> FALSE,
                         lockup_duty |-> 0,
                         accumulator_duty |-> ACC_MEDIUM,
                         shift_quality_offset |-> <<0, 0, 0>>,
                         shift_count |-> <<0, 0, 0>>,
                         limp_mode |-> FALSE]
       /\ pins = [s1 |-> IF g \in {2, 4} THEN HIGH ELSE LOW,
                  s2 |-> IF g \in {3, 4} THEN HIGH ELSE LOW,
                  sln |-> 0, slu |-> 0]
  /\ sensors = [throttle_percent |-> 0,
                vehicle_speed_kmh |-> 0,
                fluid_temp_c |-> 0,
                brake_pressed |-> FALSE,
                overdrive_enabled |-> FALSE]
  /\ kd = [last_throttle |-> 0, since_throttle_change |-> KICKDOWN_WINDOW]
  /\ stats = [total_shifts |-> 0]
  /\ obs = [episode_shifts |-> 0, since_exec |-> TimeCap, shift_gap |-> TimeCap]

TickHold ==
  \E dt \in Periods, s \in HoldCases, pwr \in BOOLEAN :
    /\ Unsampled \/ (s = sensors /\ pwr = trans_state.power_mode)
    /\ loop(dt, s, pwr, FALSE)

NextHold == TickHold

SpecHold == InitHold /\ [][NextHold]_vars

\* ---- Line pressure on both sides of every threshold of
\* calculateAccumulatorDuty: throttle around 25 and 60, fluid temperature
\* around 40, 60 and 100, from every phase, target gear, kickdown flag and
\* adaptive offset that InitDuty draws.
PressureCases ==
  { Snapshot(thr, 40, tmp, FALSE, TRUE) :
      thr \in {24, 25, 30, 60, 61}, tmp \in {30, 39, 40, 59, 60, 100, 101} }

TickPressure ==
  \E s \in PressureCases :
    /\ sensors' = s
    /\ \E w1 \in {writeDuties([ts |-> trans_state, kd |-> kd,
                               stats |-> stats, pins |-> pins], s)} :
         /\ trans_state' = w1.ts
         /\ pins' = w1.pins
    /\ UNCHANGED <<kd, stats, obs>>

NextPressure == TickPressure

SpecPressure == InitDuty /\ [][NextPressure]_vars

\* ------------------------------------------------------------------ claims
\* The loop has stopped being observed: MaxShifts shifts were executed.
Halted == stats.total_shifts >= MaxShifts

\* executeShift ran in this step.
Fired == stats'.total_shifts # stats.total_shifts

\* C1: any two successive executeShift calls of the control tick are at
\* least SHIFT_INHIBIT_TIME = 800 ms apart (shift_gap is the time between the
\* two latest calls, measured by the observer's own timer).
C1_ShiftInhibit == obs.shift_gap >= SHIFT_INHIBIT_TIME

\* A second executeShift has just run.
C1_Witness == stats.total_shifts >= 2 /\ obs.since_exec = 0

\* C2: in a shift episode executeShift runs at most once, and it runs only on
\* the tick that takes the phase from Requested to InProgress.
C2_OncePerEpisode ==
  [][ /\ obs'.episode_shifts <= 1
      /\ Fired => /\ trans_state.shift_state = SHIFT_REQUESTED
                  /\ trans_state'.shift_state = SHIFT_IN_PROGRESS
                  /\ stats'.total_shifts = stats.total_shifts + 1 ]_vars

\* An episode that has executed its shift and is past InProgress.
C2_Witness ==
  trans_state.shift_state = SHIFT_COMPLETING /\ obs.episode_shifts = 1

\* C3 as stated: every episode that ends has executed exactly one shift.
C3_ExactlyOnce ==
  [][ (trans_state.shift_state # SHIFT_STABLE /\ trans_state'.shift_state = SHIFT_STABLE)
        => obs'.episode_shifts = 1 ]_vars

\* C3 amended: an episode ends either from Completing, having executed
\* exactly one shift, or from Requested by a revert, having executed none.
C3_AtMostOnce ==
  [][ (trans_state.shift_state # SHIFT_STABLE /\ trans_state'.shift_state = SHIFT_STABLE)
        => \/ /\ trans_state.shift_state = SHIFT_COMPLETING
              /\ obs'.episode_shifts = 1
           \/ /\ trans_state.shift_state = SHIFT_REQUESTED
              /\ obs'.episode_shifts = 0
              /\ ~Fired ]_vars

\* A reverted episode has just ended: back in Stable with no shift executed,
\* the request less than one inhibit time old.
C3_Witness ==
  /\ trans_state.shift_state = SHIFT_STABLE
  /\ obs.episode_shifts = 0
  /\ stats.total_shifts >= 1
  /\ trans_state.since_shift_start > SHIFT_DELAY
  /\ trans_state.since_shift_start < trans_state.since_last_shift
  /\ trans_state.since_shift_start <= SHIFT_DELAY + 50

\* C4 as stated: in Stable, current_gear = target_gear at the end of the tick.
C4_StableAgree ==
  trans_state.shift_state = SHIFT_STABLE
    => trans_state.current_gear = trans_state.target_gear

\* C4 amended: at the end of a tick that leaves the phase Stable the two
\* gears agree, unless the tick began in Stable and the shift inhibit is still
\* running (the request then waits, across ticks), or the tick reverted a
\* Requested episode (target_gear keeps the abandoned target for that tick).
C4_StableAgreeOrHeld ==
  [][ (/\ trans_state'.shift_state = SHIFT_STABLE
       /\ trans_state'.current_gear # trans_state'.target_gear)
        => \/ /\ trans_state.shift_state = SHIFT_STABLE
              /\ trans_state'.since_last_shift <= SHIFT_INHIBIT_TIME
           \/ trans_state.shift_state = SHIFT_REQUESTED ]_vars

\* A request held back by the inhibit: Stable, the gears differ, the last
\* shift at most 800 ms old.
C4_Witness ==
  /\ trans_state.shift_state = SHIFT_STABLE
  /\ trans_state.current_gear # trans_state.target_gear
  /\ trans_state.since_last_shift <= SHIFT_INHIBIT_TIME
  /\ stats.total_shifts >= 1

\* C5 as stated: limp_mode implies target_gear = 3 at the end of every tick.
C5_LimpTarget == trans_state.limp_mode => trans_state.target_gear = 3

\* C5 amended: with limp_mode set, a tick that begins in Stable ends with
\* target_gear = 3 whatever the inputs, and target_gear then stays 3 while
\* limp_mode stays set; a shift already Requested, InProgress or Completing
\* when limp_mode is set keeps its target until the machine has ticked in
\* Stable.
C5_LimpTargetFromStable ==
  [][ /\ (trans_state'.limp_mode /\ trans_state.shift_state = SHIFT_STABLE)
         => trans_state'.target_gear = 3
      /\ (trans_state.limp_mode /\ trans_state'.limp_mode /\ trans_state.target_gear = 3)
         => trans_state'.target_gear = 3 ]_vars

\* Limp mode has redirected the selector: target 3 requested from another gear.
C5_Witness ==
  /\ trans_state.limp_mode
  /\ trans_state.target_gear = 3
  /\ trans_state.current_gear # 3
  /\ trans_state.shift_state = SHIFT_REQUESTED

\* C9: current_gear and target_gear are in 1..4 after every tick.
C9_GearRange ==
  /\ trans_state.current_gear \in 1..4
  /\ trans_state.target_gear \in 1..4

\* Top gear reached, and left again for gear 3.
C9_Witness ==
  /\ trans_state.current_gear = 4
  /\ trans_state.target_gear = 3
  /\ trans_state.shift_state = SHIFT_REQUESTED

\* C6: once limp_mode is set and stays set, the next executeShift commands
\* gear 3, current_gear becomes 3 (unless the observed run ends first), and
\* current_gear then stays 3 on every tick.
C6_LimpReachesThird ==
  /\ [][ (trans_state'.limp_mode /\ Fired) => trans_state'.current_gear = 3 ]_vars
  /\ [][ (trans_state.limp_mode /\ trans_state.current_gear = 3)
           => trans_state'.current_gear = 3 ]_vars
  /\ (trans_state.limp_mode ~> (trans_state.current_gear = 3 \/ Halted))

\* Limp mode was set away from gear 3 and the shift into gear 3 has just run.
C6_Witness ==
  /\ trans_state.limp_mode
  /\ trans_state.current_gear = 3
  /\ trans_state.shift_state = SHIFT_IN_PROGRESS
  /\ obs.since_exec = 0
  /\ sensors.vehicle_speed_kmh = 0

\* C7: with limp mode off, the selector never asks for gear 4 and no shift
\* enters gear 4 on a tick whose overdrive switch is off; if the switch is off
\* on every tick from some tick on, current_gear <= 3 from some tick on
\* (unless the observed run ends first).
C7_OverdriveInhibit ==
  /\ [][ (~sensors'.overdrive_enabled /\ trans_state.shift_state = SHIFT_STABLE)
           => trans_state'.target_gear <= 3 ]_vars
  /\ [][ (~sensors'.overdrive_enabled /\ Fired) => trans_state'.current_gear <= 3 ]_vars
  /\ (<>[](~sensors.overdrive_enabled) => <>[](trans_state.current_gear <= 3 \/ Halted))

\* Overdrive switched off in gear 4 on the open road: the selector has asked
\* for gear 3 though no downshift threshold is crossed.
C7_Witness ==
  /\ ~sensors.overdrive_enabled
  /\ trans_state.current_gear = 4
  /\ trans_state.target_gear = 3
  /\ trans_state.shift_state = SHIFT_REQUESTED
  /\ sensors.vehicle_speed_kmh = 140

\* C8 as stated: under steady load (throttle, brake, overdrive switch and power
\* mode constant, speed non-decreasing, limp mode off) current_gear never
\* decreases from one tick to the next.
C8_Monotone ==
  [][ trans_state'.current_gear >= trans_state.current_gear ]_vars

\* C10: after every tick accumulator_duty is in 15..85 and lockup_duty is one
\* of 0, 50, 75, 95, whatever the throttle, speed, fluid temperature, gears,
\* phase, kickdown flag and adaptive offsets.
C10_DutyRanges ==
  /\ trans_state.accumulator_duty \in ACC_MIN_DUTY..ACC_MAX_DUTY
  /\ trans_state.lockup_duty \in {0, 50, 75, 95}

\* The lower clamp at work: a kickdown shift into gear 2 with the softest
\* learned offset and cold fluid computes 20 - 20 - 20 and writes 15.
C10_Witness ==
  /\ trans_state.accumulator_duty = ACC_MIN_DUTY
  /\ trans_state.shift_state = SHIFT_IN_PROGRESS
  /\ trans_state.kickdown_active
  /\ trans_state.target_gear = 2
  /\ trans_state.shift_quality_offset[1] = -20
  /\ sensors.fluid_temp_c = 30

\* C11: every shift_quality_offset[i] is in -20..20 after every update of the
\* learner, whatever the durations and throttles it is given.
C11_OffsetRange ==
  \A i \in 1..3 : trans_state.shift_quality_offset[i] \in -20..20

\* The lower clamp at work: eleven slow 2->3 shifts learned, the offset held
\* at -20.
C11_Witness ==
  /\ trans_state.shift_quality_offset[2] = -20
  /\ trans_state.shift_count[2] = 11
  /\ trans_state.shift_duration_ms = 725

\* C12 as stated: every completed upshift g -> g+1 (durations at the
\* Completing -> Stable edge all exceed 450 ms) with kickdown not active,
\* throttle <= 75 and limp mode off lowers shift_quality_offset[g-1] by 2,
\* floored at -20, and adds 1 to shift_count[g-1].  On the climb every shift is
\* such an upshift, and g is the gear below the one reached.
C12_Tighten ==
  [][ (/\ trans_state.shift_state = SHIFT_COMPLETING
       /\ trans_state'.shift_state = SHIFT_STABLE
       /\ ~trans_state'.kickdown_active
       /\ sensors'.throttle_percent <= 75
       /\ ~trans_state'.limp_mode)
        => LET g == trans_state'.current_gear - 1
           IN  /\ trans_state'.shift_quality_offset[g] =
                    constrain(trans_state.shift_quality_offset[g] - 2, -20, 20)
               /\ trans_state'.shift_count[g] = trans_state.shift_count[g] + 1 ]_vars

\* C13: on a tick whose speed is within 50..60 km/h lockup_engaged never goes
\* from false to true.  Over a run of such ticks the flag can therefore only
\* fall, once: it does not toggle back and forth, and changes at most once in
\* any 1-second window.
C13_LockupHysteresis ==
  [][ sensors'.vehicle_speed_kmh \in LOCKUP_DISABLE_SPEED..LOCKUP_ENABLE_SPEED
        => ~(~trans_state.lockup_engaged /\ trans_state'.lockup_engaged) ]_vars

\* Gear 3, long Stable, throttle 15, warm fluid, the speed on the upper edge
\* of the band: everything but the speed allows lockup, and the flag is false.
C13_Witness ==
  /\ trans_state.current_gear = 3
  /\ trans_state.shift_state = SHIFT_STABLE
  /\ trans_state.since_shift_start = TimeCap
  /\ sensors.vehicle_speed_kmh = LOCKUP_ENABLE_SPEED
  /\ ~trans_state.lockup_engaged

\* C14 as stated: in gear 3, Stable, fluid 80 C, throttle 15, lockup_duty is 0
\* until the speed first exceeds 60, 95 from then until the speed first falls
\* below 50, and 0 afterwards.  Tick by tick: above 60 the duty is 95, below 50
\* it is 0, and in between it keeps the value it had.
C14_LockupSweep ==
  [][ (/\ trans_state'.current_gear = 3
       /\ trans_state'.shift_state = SHIFT_STABLE
       /\ sensors'.fluid_temp_c = 80
       /\ sensors'.throttle_percent = 15)
        => /\ sensors'.vehicle_speed_kmh > LOCKUP_ENABLE_SPEED
                => trans_state'.lockup_duty = 95
           /\ sensors'.vehicle_speed_kmh < LOCKUP_DISABLE_SPEED
                => trans_state'.lockup_duty = 0
           /\ sensors'.vehicle_speed_kmh \in LOCKUP_DISABLE_SPEED..LOCKUP_ENABLE_SPEED
                => trans_state'.lockup_duty = trans_state.lockup_duty ]_vars

\* C15: a tick that takes the phase from Requested back to Stable (the request
\* delay has run and the selector no longer returns the stored target) has no
\* side effect: executeShift is not called, and current_gear, the two gear
\* solenoids, the time of the last shift (its age only grows by the tick
\* period), total_shifts and the adaptive offsets and counts are unchanged.
C15_RevertNoSideEffect ==
  [][ (trans_state.shift_state = SHIFT_REQUESTED /\ trans_state'.shift_state = SHIFT_STABLE)
        => /\ trans_state'.since_shift_start > SHIFT_DELAY
           /\ stats'.total_shifts = stats.total_shifts
           /\ trans_state'.current_gear = trans_state.current_gear
           /\ pins'.s1 = pins.s1
           /\ pins'.s2 = pins.s2
           /\ \E dt \in Periods :
                trans_state'.since_last_shift = Min(trans_state.since_last_shift + dt, TimeCap)
           /\ trans_state'.shift_quality_offset = trans_state.shift_quality_offset
           /\ trans_state'.shift_count = trans_state.shift_count ]_vars

\* The first request (1 -> 2) has just been reverted: Stable in gear 1 with the
\* abandoned target still stored, no shift inhibit running, nothing executed.
C15_Witness ==
  /\ trans_state.shift_state = SHIFT_STABLE
  /\ trans_state.current_gear = 1
  /\ trans_state.target_gear = 2
  /\ trans_state.since_last_shift = TimeCap
  /\ trans_state.since_shift_start > SHIFT_DELAY
  /\ trans_state.since_shift_start <= SHIFT_DELAY + 50
  /\ stats.total_shifts = 0
  /\ pins.s1 = LOW

\* C16: the phase changes only along Stable -> Requested, Requested ->
\* InProgress, Requested -> Stable, InProgress -> Completing and Completing ->
\* Stable, one edge per tick at most, and each edge has its time gate:
\* Requested is left only more than 150 ms, InProgress more than 500 ms and
\* Completing more than 700 ms after the request; Stable is left only with
\* target_gear # current_gear and the last shift more than 800 ms old.
C16_PhaseEdges ==
  [][ trans_state'.shift_state # trans_state.shift_state
        => \/ /\ trans_state.shift_state = SHIFT_STABLE
              /\ trans_state'.shift_state = SHIFT_REQUESTED
              /\ trans_state'.target_gear # trans_state'.current_gear
              /\ trans_state'.since_last_shift > SHIFT_INHIBIT_TIME
              /\ trans_state'.since_shift_start = 0
           \/ /\ trans_state.shift_state = SHIFT_REQUESTED
              /\ trans_state'.shift_state \in {SHIFT_IN_PROGRESS, SHIFT_STABLE}
              /\ trans_state'.since_shift_start > SHIFT_DELAY
           \/ /\ trans_state.shift_state = SHIFT_IN_PROGRESS
              /\ trans_state'.shift_state = SHIFT_COMPLETING
              /\ trans_state'.since_shift_start > SHIFT_COMPLETE_TIME
           \/ /\ trans_state.shift_state = SHIFT_COMPLETING
              /\ trans_state'.shift_state = SHIFT_STABLE
              /\ trans_state'.since_shift_start > SHIFT_COMPLETE_TIME + SHIFT_SETTLE_TIME ]_vars

\* A confirmed episode has just walked all its edges: back in Stable on the
\* first tick past 700 ms, its one shift executed.
C16_Witness ==
  /\ trans_state.shift_state = SHIFT_STABLE
  /\ obs.episode_shifts = 1
  /\ trans_state.since_shift_start > SHIFT_COMPLETE_TIME + SHIFT_SETTLE_TIME
  /\ trans_state.since_shift_start <= SHIFT_COMPLETE_TIME + SHIFT_SETTLE_TIME + 50

\* C17: every shift episode ends.  While loop() keeps running, a phase other
\* than Stable leads to Stable whatever the inputs (unless the observed run
\* ends first), and a tick in Completing more than 700 ms after the request
\* ends in Stable.
C17_EpisodeEnds ==
  /\ (trans_state.shift_state # SHIFT_STABLE
        ~> (trans_state.shift_state = SHIFT_STABLE \/ Halted))
  /\ [][ (/\ trans_state.shift_state = SHIFT_COMPLETING
          /\ trans_state'.since_shift_start > SHIFT_COMPLETE_TIME + SHIFT_SETTLE_TIME)
           => trans_state'.shift_state = SHIFT_STABLE ]_vars

\* The shift into top gear has run to its end: Stable in gear 4 on the first
\* tick past 700 ms.
C17_Witness ==
  /\ trans_state.shift_state = SHIFT_STABLE
  /\ trans_state.current_gear = 4
  /\ obs.episode_shifts = 1
  /\ trans_state.since_shift_start > SHIFT_COMPLETE_TIME + SHIFT_SETTLE_TIME
  /\ trans_state.since_shift_start < TimeCap

\* C18 as stated: after every tick lockup_engaged is true exactly when
\* lockup_duty is non-zero (in the band between the thresholds both are
\* cleared).
C18_EngagedIffDuty ==
  trans_state.lockup_engaged <=> trans_state.lockup_duty # 0

\* The selector ran in this step: limp mode off, and the tick began in Stable
\* or was the recheck that ends Requested.
SelectorRan ==
  /\ ~trans_state'.limp_mode
  /\ \/ trans_state.shift_state = SHIFT_STABLE
     \/ /\ trans_state.shift_state = SHIFT_REQUESTED
        /\ trans_state'.shift_state # SHIFT_REQUESTED

\* C19 as stated: on each selector evaluation a throttle rise of 20 points or
\* more over the previous sample, a rise of exactly 20 included, restamps the
\* last sharp rise, and kickdown_active is true exactly when throttle > 85 and
\* the last sharp rise is less than 200 ms old.
C19_Kickdown ==
  [][ SelectorRan
        => /\ (sensors'.throttle_percent - kd.last_throttle >= 20)
                => kd'.since_throttle_change = 0
           /\ trans_state'.kickdown_active
                <=> (/\ sensors'.throttle_percent > KICKDOWN_THRESHOLD
                     /\ kd'.since_throttle_change < KICKDOWN_WINDOW) ]_vars

\* C19 amended: on each selector evaluation a throttle rise of more than 20
\* points over the previous sample, and no smaller one, restamps the last
\* sharp rise; the sample becomes the previous sample; kickdown_active is true
\* exactly when throttle > 85 and the last sharp rise is less than 200 ms old.
C19_KickdownStrict ==
  [][ SelectorRan
        => /\ (sensors'.throttle_percent - kd.last_throttle > KICKDOWN_RISE)
                <=> kd'.since_throttle_change = 0
           /\ kd'.last_throttle = sensors'.throttle_percent
           /\ trans_state'.kickdown_active
                <=> (/\ sensors'.throttle_percent > KICKDOWN_THRESHOLD
                     /\ kd'.since_throttle_change < KICKDOWN_WINDOW) ]_vars

\* The throttle has just been floored from closed to 86: the rise is stamped
\* and kickdown is active.
C19_Witness ==
  /\ trans_state.kickdown_active
  /\ sensors.throttle_percent = 86
  /\ kd.last_throttle = 86
  /\ kd.since_throttle_change = 0

\* C20 as stated: on every Completing -> Stable transition shift_duration_ms
\* is set to the time elapsed since the request of the episode that ends.
C20_DurationRecorded ==
  [][ (trans_state.shift_state = SHIFT_COMPLETING /\ trans_state'.shift_state = SHIFT_STABLE)
        => trans_state'.shift_duration_ms = trans_state'.since_shift_start ]_vars

\* The number of gears between a and b.
GearDistance(a, b) == IF a >= b THEN a - b ELSE b - a

\* C21: with limp mode off the selector returns a gear at most one away from
\* current_gear, for every gear and snapshot (the target stored by a tick that
\* begins in Stable), and every executeShift changes current_gear by exactly
\* one gear.
C21_OneGearAtATime ==
  [][ /\ (trans_state.shift_state = SHIFT_STABLE /\ ~trans_state'.limp_mode)
           => GearDistance(trans_state'.target_gear, trans_state.current_gear) <= 1
      /\ (Fired /\ ~trans_state'.limp_mode)
           => GearDistance(trans_state'.current_gear, trans_state.current_gear) = 1 ]_vars

\* A kickdown from top gear at 60 km/h, below both kickdown speeds: the shift
\* executed is 4 -> 3, one gear, with kickdown still active at the recheck.
C21_Witness ==
  /\ trans_state.current_gear = 3
  /\ trans_state.shift_state = SHIFT_IN_PROGRESS
  /\ trans_state.kickdown_active
  /\ sensors.throttle_percent = 90
  /\ sensors.vehicle_speed_kmh = 60
  /\ stats.total_shifts = 1
  /\ obs.since_exec = 0

\* The duty in percent that a 10-bit PWM compare value stands for (the
\* smallest duty that maps at or above it).
PwmPercent(v) == (v * 100 + PWM_MAX_DUTY - 1) \div PWM_MAX_DUTY

\* C22: at the end of every tick S1/S2 encode current_gear (1: LOW,LOW;
\* 2: HIGH,LOW; 3: LOW,HIGH; 4: HIGH,HIGH), the accumulator PWM output stands
\* for accumulator_duty and the lockup PWM output for lockup_duty; a tick that
\* executes a shift ends with current_gear = target_gear and total_shifts one
\* higher.
C22_OutputsConsistent ==
  [][ /\ pins'.s1 = (IF trans_state'.current_gear \in {2, 4} THEN HIGH ELSE LOW)
      /\ pins'.s2 = (IF trans_state'.current_gear \in {3, 4} THEN HIGH ELSE LOW)
      /\ PwmPercent(pins'.sln) = trans_state'.accumulator_duty
      /\ PwmPercent(pins'.slu) = trans_state'.lockup_duty
      /\ Fired => /\ trans_state'.current_gear = trans_state'.target_gear
                  /\ stats'.total_shifts = stats.total_shifts + 1 ]_vars

\* Top gear on the open road with the lockup clutch fully applied: both gear
\* solenoids on, the lockup output at the compare value of 95 percent.
C22_Witness ==
  /\ trans_state.current_gear = 4
  /\ pins.s1 = HIGH
  /\ pins.s2 = HIGH
  /\ trans_state.lockup_duty = 95
  /\ pins.slu = setPwm(95)
  /\ pins.slu > 0

\* The pressure formula as the specification states it: the base of the
\* phase, the adaptive offset of the target gear, the temperature
\* compensation, then the clamp.
PressureBase(ts, s) ==
  CASE ts.shift_state # SHIFT_IN_PROGRESS -> 50
    [] ts.kickdown_active -> 20
    [] s.throttle_percent > 60 -> 30
    [] s.throttle_percent < 25 -> 70
    [] OTHER -> 50

PressureOffset(ts) ==
  IF ts.shift_state = SHIFT_IN_PROGRESS /\ ts.target_gear \in {2, 3, 4}
    THEN ts.shift_quality_offset[ts.target_gear - 1]
    ELSE 0

PressureCompensation(s) ==
  CASE s.fluid_temp_c < 40 -> -20
    [] s.fluid_temp_c >= 40 /\ s.fluid_temp_c < 60 -> -10
    [] s.fluid_temp_c > 100 -> 10
    [] OTHER -> 0

PressureClamp(d) == IF d < 15 THEN 15 ELSE IF d > 85 THEN 85 ELSE d

\* C23: at the end of every tick the accumulator duty is the pressure
\* formula of the phase, kickdown flag, target gear and offsets the tick
\* ends with and of the snapshot it read: base 50 outside InProgress; in
\* InProgress 20 on kickdown, else 30 above 60 % throttle, else 70 below
\* 25 %, else 50, plus the offset of target gear 2..4; then -20 below 40 C,
\* -10 from 40 to 59 C, +10 above 100 C; clamped to 15..85.
C23_PressureFormula ==
  [][trans_state'.accumulator_duty =
       PressureClamp(PressureBase(trans_state', sensors')
                     + PressureOffset(trans_state')
                     + PressureCompensation(sensors'))]_vars

\* The example of the claim: throttle 30, no kickdown, zero offset, fluid
\* at 30 C during InProgress gives duty 30, written to the SLN output.
C23_Witness ==
  /\ trans_state.shift_state = SHIFT_IN_PROGRESS
  /\ ~trans_state.kickdown_active
  /\ trans_state.target_gear = 3
  /\ trans_state.shift_quality_offset = <<0, 0, 0>>
  /\ sensors.throttle_percent = 30
  /\ sensors.fluid_temp_c = 30
  /\ trans_state.accumulator_duty = 30
  /\ pins.sln = setPwm(30)

\* C24 as stated: with the snapshot (throttle, speed, brake, overdrive
\* switch, power mode) held constant and limp mode off, from every starting
\* gear current_gear changes at most 3 times.  Every executed shift changes
\* current_gear, and total_shifts counts them from 0.
C24_NoHunting == stats.total_shifts <= 3

\* C25: on every tick that takes Completing to Stable, where the adaptive
\* learner is called, more than 700 ms have passed since the shift started,
\* so the duration the learner sees is never below 350 ms; and no
\* shift_quality_offset[i] exceeds 0 after any tick.
C25_LearnerNeverSoftens ==
  [][ /\ (/\ trans_state.shift_state = SHIFT_COMPLETING
          /\ trans_state'.shift_state = SHIFT_STABLE)
           => /\ trans_state'.since_shift_start > 700
              /\ ~(trans_state'.since_shift_start < 350)
      /\ \A i \in 1..3 : trans_state'.shift_quality_offset[i] <= 0 ]_vars

\* The learner has just been called at the end of the first upshift 1 -> 2:
\* Stable again at the first clock value past 700 ms, no offset above 0.
C25_Witness ==
  /\ trans_state.shift_state = SHIFT_STABLE
  /\ trans_state.current_gear = 2
  /\ stats.total_shifts = 1
  /\ trans_state.since_shift_start = 725
  /\ \A i \in 1..3 : trans_state.shift_quality_offset[i] <= 0

====
